---- MODULE Spec2Model ----
(***************************************************************************)
(* A model of the PyAirbyte pieces in this repository:                     *)
(*   - airbyte/_util/api_util.py   (the Airbyte Cloud API wrapper),        *)
(*   - airbyte/caches/bigquery.py  (BigQuerySqlProcessor batch loading),   *)
(*   - airbyte/_processors/file/jsonl.py (JsonlWriter).                    *)
(* Python strings that the code inspects are modelled as tuples of         *)
(* one-character strings, so that "in" is a real substring test.           *)
(***************************************************************************)
EXTENDS Integers, Sequences, FiniteSets, TLC

\* ------------------------------------------------------------------ bounds
MaxPages == 2
MaxPageLen == 2
MaxFiles == 2
MaxRecords == 2
MaxColumns == 2
MaxConnections == 101

\* --------------------------------------------------- api_util: constants
CLOUD_API_ROOT == "https://api.airbyte.com/v1"
LEGACY_API_ROOT == "https://cloud.airbyte.com/api/v1"
OSS_API_ROOT == "http://localhost:8000/api/public/v1"
ApiRoots == {CLOUD_API_ROOT, LEGACY_API_ROOT, OSS_API_ROOT}

\* limit = 50 in list_connections
limit == 50

\* HTTP status codes the server side answers with.
OkCodes == {200, 204}
ErrorCodes == {404, 500}
StatusCodes == OkCodes \cup ErrorCodes

status_ok(status_code) == status_code >= 200 /\ status_code < 300

\* ------------------------------------------------------- Python strings
EmptyStr == <<>>

\* Python's  s in t  for two str operands.
IsSubstring(s, t) ==
    \E i \in 0..(Len(t) - Len(s)) : SubSeq(t, i + 1, i + Len(s)) = s

\* Sequences over S of length 0..n.
SeqsUpTo(S, n) == UNION {[1..k -> S] : k \in 0..n}

RECURSIVE Flatten(_)
Flatten(ss) == IF ss = <<>> THEN <<>> ELSE Head(ss) \o Flatten(Tail(ss))

\* ------------------------------------------- list_connections: the data
ConnectionNames == {<<"a">>, <<"a", "b">>, <<"b">>}

\* The ConnectionResponse objects the server may put on a page.
ListedConnections ==
    { [connection_id |-> 1, name |-> <<"a">>],
      [connection_id |-> 2, name |-> <<"a", "b">>] }

\* The values of the name_filter parameter: None, a str, or a callable
\* (a callable is modelled by the set of names it returns True for).
\* kind "inner" is the function object made by the nested  def name_filter.
NoneFilter == [kind |-> "None", value |-> EmptyStr, accepts |-> {}]
StrFilter(s) == [kind |-> "str", value |-> s, accepts |-> {}]
CallableFilter(S) == [kind |-> "callable", value |-> EmptyStr, accepts |-> S]
InnerFunction == [kind |-> "inner", value |-> EmptyStr, accepts |-> {}]

NameFilters ==
    {NoneFilter}
    \cup {StrFilter(s) : s \in ConnectionNames}
    \cup {CallableFilter(S) : S \in SUBSET ConnectionNames}

\* A reply to ListConnectionsRequest: status code, whether
\* connections_response is set, and connections_response.data.
ListReplies ==
    { [status_code |-> c, connections_response |-> TRUE, data |-> d] :
        c \in {200}, d \in SeqsUpTo(ListedConnections, MaxPageLen) }
    \cup
    { [status_code |-> c, connections_response |-> b, data |-> <<>>] :
        c \in StatusCodes, b \in BOOLEAN }

\* ------------------------------------------------ api_util: other data
\* Resource ids are Python strings; IdStr(n) is a string of n characters, so
\* IdStr(0) is the empty string.
IdStr(n) == [i \in 1..n |-> "x"]

WorkspaceIds == {"ws-1", "ws-2"}
ResourceNames == {"deleteme-1", "deleteme-2"}
SourceConfigs == {"faker", "invalid"}
DestinationConfigs == {"duckdb", "invalid"}
StreamNameLists == {<<>>, <<"users">>, <<"users", "purchases", "products">>}

\* The server side: the resources it holds and the next id it hands out.
EmptyServer ==
    [sources |-> {}, destinations |-> {}, connections |-> {}, next_id |-> 1]

\* A server that already holds a source and a destination.
PopulatedServer ==
    [sources |-> {[source_id |-> IdStr(1), name |-> "deleteme-1",
                   source_type |-> "faker", workspace_id |-> "ws-1"]},
     destinations |-> {[destination_id |-> IdStr(2), name |-> "deleteme-2",
                        destination_type |-> "duckdb", workspace_id |-> "ws-1"]},
     connections |-> {},
     next_id |-> 3]

VARIABLES
    prog,         \* the client program: "idle", "call" or the name of a test
    tpc,          \* the position in a test
    locals,       \* the locals of a test
    server,       \* the resources held by the API server
    fn,           \* the api_util function called last
    pc,           \* position in it: "idle", "loop", "exhausted", "returned", "raised"
    args,         \* the arguments of the call
    name_filter,  \* list_connections: the local name_filter
    offset,       \* list_connections: the local offset
    served,       \* the data of the non-empty OK pages the server has returned
    yielded,      \* the connections the generator has yielded
    requests,     \* the HTTP requests issued by this call, in order
    last_response,\* the last response the call received
    raised,       \* the exception that ended the call, "None" if none
    value         \* the value returned

VARIABLES
    server_connections,  \* the connections held by a server that lists them page by page
    keywords      \* the names of the keyword arguments the last call was made with

callvars == <<fn, pc, args, requests, last_response, raised, value>>
genvars == <<name_filter, offset, served, yielded>>
apivars == <<prog, tpc, locals, server, callvars, genvars>>

\* BigQuerySqlProcessor._write_files_to_new_table
VARIABLES
    bq_config,        \* the cache configuration: project and schema_name
    bq_pc,            \* "idle", "loop", "returned", "raised"
    bq_args,          \* files, stream_name, batch_id
    bq_index,         \* the position of the for loop in files
    temp_table_name,  \* the local temp_table_name
    warehouse,        \* the tables of the warehouse and their rows
    bq_log,           \* the tables created and the files loaded, in order
    bq_raised,        \* the exception that ended the call
    bq_returned       \* the name returned

bqvars == <<bq_config, bq_pc, bq_args, bq_index, temp_table_name, warehouse,
            bq_log, bq_raised, bq_returned>>

\* JsonlWriter
VARIABLES
    jsonl_open,     \* whether the batch file has been opened
    jsonl_content,  \* the bytes written to it, before compression
    jsonl_written   \* the records passed to _write_record_dict, in order

jsonlvars == <<jsonl_open, jsonl_content, jsonl_written>>

\* BigQueryConverter.to_sql_type
VARIABLES
    conv_schema,   \* the JSON-schema property definitions of a stream's columns
    conv_columns   \* the result of to_sql_type for the columns converted so far

convvars == <<conv_schema, conv_columns>>

\* AirbyteWriterInterface._write_airbyte_io_stream
VARIABLES
    writer_pc,      \* "idle", "returned", "raised"
    writer_args,    \* the arguments _write_airbyte_io_stream was called with
    writer_calls,   \* the calls the method made on the writer and on its arguments
    writer_raised   \* the exception that came out of the call

writervars == <<writer_pc, writer_args, writer_calls, writer_raised>>

vars == <<apivars, bqvars, jsonlvars, convvars, writervars, keywords, server_connections>>

NoValue == [kind |-> "None"]
NoLocals ==
    [workspace_id |-> "None", source |-> NoValue, destination |-> NoValue,
     connection |-> NoValue]

InitApi ==
    /\ prog = "idle"
    /\ keywords = {}
    /\ server_connections = <<>>
    /\ tpc = 0
    /\ locals = NoLocals
    /\ server \in {EmptyServer, PopulatedServer}
    /\ fn = "None"
    /\ pc = "idle"
    /\ args = [name_filter |-> NoneFilter]
    /\ name_filter = NoneFilter
    /\ offset = 0
    /\ served = <<>>
    /\ yielded = <<>>
    /\ requests = <<>>
    /\ last_response = NoValue
    /\ raised = "None"
    /\ value = NoValue

\* ----------------------------------------------------- list_connections
\* Python's  left in right  where right is a str: a str left operand gives
\* the substring test, any other left operand raises TypeError.
PyIn(left, right) ==
    IF left.kind = "str"
    THEN [raised |-> "None", result |-> IsSubstring(left.value, right)]
    ELSE [raised |-> "TypeError", result |-> FALSE]

\* Calling the object bound to the local name_filter with a name.  The inner
\* function's body is  name_filter in name , whose free variable name_filter
\* is the enclosing local itself, read at call time.
CallNameFilter(f, name) ==
    IF f.kind = "callable"
    THEN [raised |-> "None", result |-> name \in f.accepts]
    ELSE IF f.kind = "inner"
    THEN PyIn(name_filter, name)
    ELSE [raised |-> "TypeError", result |-> FALSE]

\* A filter test that lets every connection through.
KeepConnectionUnfiltered(connection) ==
    [raised |-> "None", result |-> TRUE]

\* if name_filter is None or name_filter(connection.name)
KeepConnection(connection) ==
    IF name_filter.kind = "None"
    THEN [raised |-> "None", result |-> TRUE]
    ELSE CallNameFilter(name_filter, connection.name)

\* for connection in connections: ... yield connection
RECURSIVE YieldFrom(_)
YieldFrom(connections) ==
    IF connections = <<>>
    THEN [raised |-> "None", out |-> <<>>]
    ELSE LET k == KeepConnection(Head(connections)) IN
         IF k.raised # "None"
         THEN [raised |-> k.raised, out |-> <<>>]
         ELSE LET rest == YieldFrom(Tail(connections)) IN
              [raised |-> rest.raised,
               out |-> (IF k.result THEN <<Head(connections)>> ELSE <<>>) \o rest.out]

\* The first lines of list_connections: offset = 0 and the redefinition of
\* name_filter when it is a str.
BeginListConnections(nf) ==
    /\ offset' = 0
    /\ name_filter' = IF nf.kind = "str" THEN InnerFunction ELSE nf
    /\ served' = <<>>
    /\ yielded' = <<>>
    /\ requests' = <<>>
    /\ last_response' = NoValue
    /\ raised' = "None"
    /\ value' = NoValue
    /\ pc' = "loop"

\* A direct call of one api_util function by the client.
Direct ==
    /\ prog = "idle"
    /\ prog' = "call"
    /\ UNCHANGED <<tpc, locals, bqvars, jsonlvars, convvars, writervars, keywords, server_connections>>

list_connections(nf) ==
    /\ args' = [name_filter |-> nf]
    /\ BeginListConnections(nf)
    /\ fn' = "list_connections"
    /\ UNCHANGED server

call_list_connections ==
    /\ Direct
    /\ \E nf \in NameFilters : list_connections(nf)

\* One turn of the  while True  loop: one ListConnectionsRequest and the
\* handling of its response.
\* offset += limit, taken one connection at a time.
NextOffsetByOne(o) == o + 1

\* offset += limit
NextOffset(o) == o + limit

\* The handling of one response in the  while True  loop.
HandleListResponse(response) ==
    /\ last_response' = response
    /\ requests' = Append(requests,
          [op |-> "list_connections", limit |-> limit, offset |-> offset])
    /\ IF status_ok(response.status_code) /\ response.connections_response
       THEN IF response.data = <<>>
            THEN /\ pc' = "exhausted"
                 /\ UNCHANGED <<offset, served, yielded, raised>>
            ELSE LET y == YieldFrom(response.data) IN
                 /\ served' = Append(served, response.data)
                 /\ yielded' = yielded \o y.out
                 /\ IF y.raised # "None"
                    THEN /\ pc' = "raised"
                         /\ raised' = y.raised
                         /\ UNCHANGED offset
                    ELSE /\ offset' = NextOffset(offset)
                         /\ UNCHANGED <<pc, raised>>
       ELSE /\ pc' = "raised"
            /\ raised' = "AirbyteError"
            /\ UNCHANGED <<offset, served, yielded>>
    /\ UNCHANGED <<prog, tpc, locals, server, fn, args, name_filter, value>>
    /\ UNCHANGED <<bqvars, jsonlvars, convvars, writervars, keywords, server_connections>>

ListConnectionsPage ==
    /\ fn \in {"list_connections", "get_connection_by_name"}
    /\ pc = "loop"
    /\ \E response \in ListReplies :
          /\ response.data # <<>> => Len(served) < MaxPages
          /\ HandleListResponse(response)

\* A server that holds a fixed list of connections and honours limit and
\* offset: the page it returns for a request.
HeldConnections(n) ==
    [i \in 1..n |->
        [connection_id |-> i,
         name |-> IF i % 2 = 1 THEN <<"a">> ELSE <<"a", "b">>]]

PageOf(connections, page_limit, page_offset) ==
    SubSeq(connections, page_offset + 1,
           IF page_offset + page_limit < Len(connections)
           THEN page_offset + page_limit ELSE Len(connections))

\* One turn of the loop against that server.
ListConnectionsPageOfHeld ==
    /\ fn = "list_connections"
    /\ pc = "loop"
    /\ HandleListResponse(
          [status_code |-> 200, connections_response |-> TRUE,
           data |-> PageOf(server_connections, limit, offset)])

NextPagination ==
    \/ call_list_connections
    \/ ListConnectionsPageOfHeld

\* ----------------------------------------------- get_connection_by_name
get_connection_by_name(connection_name) ==
    /\ args' = [name_filter |-> NoneFilter, connection_name |-> connection_name]
    /\ BeginListConnections(NoneFilter)
    /\ fn' = "get_connection_by_name"
    /\ UNCHANGED server

call_get_connection_by_name ==
    /\ Direct
    /\ \E connection_name \in ConnectionNames :
          get_connection_by_name(connection_name)

\* After the generator is exhausted: found, and the three outcomes.
GetConnectionByNameFound ==
    /\ fn = "get_connection_by_name"
    /\ pc = "exhausted"
    /\ LET found == SelectSeq(yielded, LAMBDA c : c.name = args.connection_name) IN
       IF Len(found) = 0
       THEN /\ pc' = "raised"
            /\ raised' = "AirbyteMissingResourceError"
            /\ UNCHANGED value
       ELSE IF Len(found) > 1
       THEN /\ pc' = "raised"
            /\ raised' = "AirbyteMultipleResourcesError"
            /\ UNCHANGED value
       ELSE /\ pc' = "returned"
            /\ value' = found[1]
            /\ UNCHANGED raised
    /\ UNCHANGED <<prog, tpc, locals, server, fn, args, requests, last_response,
                   genvars, bqvars, jsonlvars, convvars, writervars, keywords, server_connections>>

\* ------------------------------------------- the single-request functions
\* The end of a call that ran without the generator: what it was called
\* with, the requests it issued, the exception it raised and its value.
Finish(f, a, reqs, exc, val) ==
    /\ fn' = f
    /\ args' = a
    /\ requests' = reqs
    /\ raised' = exc
    /\ value' = val
    /\ pc' = IF exc = "None" THEN "returned" ELSE "raised"
    /\ UNCHANGED genvars

\* A reply of the SDK to a get/run request: the status code and whether the
\* response object carries its body field.
BodyReplies == [status_code : StatusCodes, body : BOOLEAN]

\* A get_workspace that asks a second time when the first reply is not OK.
get_workspace_retrying(workspace_id) ==
    /\ \E response \in BodyReplies :
          /\ last_response' = response
          /\ LET request == [op |-> "get_workspace", workspace_id |-> workspace_id] IN
             IF status_ok(response.status_code) /\ response.body
             THEN Finish("get_workspace", [workspace_id |-> workspace_id], <<request>>,
                         "None",
                         [kind |-> "WorkspaceResponse", workspace_id |-> workspace_id])
             ELSE Finish("get_workspace", [workspace_id |-> workspace_id],
                         <<request, request>>,
                         "AirbyteMissingResourceError", NoValue)
    /\ UNCHANGED server

\* A get_workspace that returns on every OK status, with or without a body.
get_workspace_unchecked(workspace_id) ==
    /\ \E response \in BodyReplies :
          /\ last_response' = response
          /\ LET request == [op |-> "get_workspace", workspace_id |-> workspace_id] IN
             IF status_ok(response.status_code)
             THEN Finish("get_workspace", [workspace_id |-> workspace_id], <<request>>,
                         "None",
                         IF response.body
                         THEN [kind |-> "WorkspaceResponse", workspace_id |-> workspace_id]
                         ELSE NoValue)
             ELSE Finish("get_workspace", [workspace_id |-> workspace_id], <<request>>,
                         "AirbyteMissingResourceError", NoValue)
    /\ UNCHANGED server

get_workspace(workspace_id) ==
    /\ \E response \in BodyReplies :
          /\ last_response' = response
          /\ LET request == [op |-> "get_workspace", workspace_id |-> workspace_id] IN
             IF status_ok(response.status_code) /\ response.body
             THEN Finish("get_workspace", [workspace_id |-> workspace_id], <<request>>,
                         "None",
                         [kind |-> "WorkspaceResponse", workspace_id |-> workspace_id])
             ELSE Finish("get_workspace", [workspace_id |-> workspace_id], <<request>>,
                         "AirbyteMissingResourceError", NoValue)
    /\ UNCHANGED server

get_connection(workspace_id, connection_id) ==
    /\ \E response \in BodyReplies :
          /\ last_response' = response
          /\ LET request == [op |-> "get_connection", connection_id |-> connection_id]
                 a == [workspace_id |-> workspace_id, connection_id |-> connection_id]
             IN
             IF status_ok(response.status_code) /\ response.body
             THEN Finish("get_connection", a, <<request>>, "None",
                         [kind |-> "ConnectionResponse", connection_id |-> connection_id])
             ELSE Finish("get_connection", a, <<request>>,
                         "AirbyteMissingResourceError", NoValue)
    /\ UNCHANGED server

run_connection(workspace_id, connection_id) ==
    /\ \E response \in BodyReplies :
          /\ last_response' = response
          /\ LET request == [op |-> "create_job", connection_id |-> connection_id,
                             job_type |-> "sync"]
                 a == [workspace_id |-> workspace_id, connection_id |-> connection_id]
             IN
             IF status_ok(response.status_code) /\ response.body
             THEN Finish("run_connection", a, <<request>>, "None",
                         [kind |-> "JobResponse", connection_id |-> connection_id])
             ELSE Finish("run_connection", a, <<request>>,
                         "AirbyteConnectionSyncError", NoValue)
    /\ UNCHANGED server

get_job_logs(workspace_id, connection_id, job_limit) ==
    /\ \E response \in BodyReplies :
          /\ last_response' = response
          /\ LET request == [op |-> "list_jobs", workspace_ids |-> <<workspace_id>>,
                             connection_id |-> connection_id, limit |-> job_limit]
                 a == [workspace_id |-> workspace_id, connection_id |-> connection_id,
                       limit |-> job_limit]
             IN
             IF status_ok(response.status_code) /\ response.body
             THEN Finish("get_job_logs", a, <<request>>, "None",
                         [kind |-> "JobResponseList", connection_id |-> connection_id])
             ELSE Finish("get_job_logs", a, <<request>>,
                         "AirbyteMissingResourceError", NoValue)
    /\ UNCHANGED server

get_job_info(job_id) ==
    /\ \E response \in BodyReplies :
          /\ last_response' = response
          /\ LET request == [op |-> "get_job", job_id |-> job_id] IN
             IF status_ok(response.status_code) /\ response.body
             THEN Finish("get_job_info", [job_id |-> job_id], <<request>>, "None",
                         [kind |-> "JobResponse", job_id |-> job_id])
             ELSE Finish("get_job_info", [job_id |-> job_id], <<request>>,
                         "AirbyteMissingResourceError", NoValue)
    /\ UNCHANGED server

\* get_source reads response.connection_response; the response to a
\* GetSourceRequest carries its body in source_response and has no field of
\* that name, so the read raises AttributeError once the status is OK.
GetSourceResponseFields == {"status_code", "source_response"}

get_source(source_id) ==
    /\ \E response \in BodyReplies :
          /\ last_response' = response
          /\ LET request == [op |-> "get_source", source_id |-> source_id] IN
             IF status_ok(response.status_code)
             THEN IF "connection_response" \in GetSourceResponseFields
                  THEN IF response.body
                       THEN Finish("get_source", [source_id |-> source_id], <<request>>,
                                   "None",
                                   [kind |-> "SourceResponse", source_id |-> source_id])
                       ELSE Finish("get_source", [source_id |-> source_id], <<request>>,
                                   "AirbyteMissingResourceError", NoValue)
                  ELSE Finish("get_source", [source_id |-> source_id], <<request>>,
                              "AttributeError", NoValue)
             ELSE Finish("get_source", [source_id |-> source_id], <<request>>,
                         "AirbyteMissingResourceError", NoValue)
    /\ UNCHANGED server

\* get_destination: the raw JSON of an OK reply is read for "configuration"
\* and "destinationType"; the typed configuration replaces the parsed one.
DestinationTypes == {"snowflake", "bigquery", "postgres", "duckdb", "other"}

ConfigurationClass(destination_type) ==
    CASE destination_type = "snowflake" -> "DestinationSnowflake"
      [] destination_type = "bigquery" -> "DestinationBigquery"
      [] destination_type = "postgres" -> "DestinationPostgres"
      [] destination_type = "duckdb" -> "DestinationDuckdb"
      [] OTHER -> "untyped"

get_destination(destination_id) ==
    /\ \E response \in BodyReplies, has_configuration \in BOOLEAN,
          destination_type \in DestinationTypes :
          /\ last_response' = response
          /\ LET request == [op |-> "get_destination", destination_id |-> destination_id]
                 a == [destination_id |-> destination_id]
             IN
             IF status_ok(response.status_code)
             THEN IF ~has_configuration
                  THEN Finish("get_destination", a, <<request>>, "KeyError", NoValue)
                  ELSE IF ~response.body /\ destination_type # "other"
                  THEN Finish("get_destination", a, <<request>>, "AttributeError", NoValue)
                  ELSE IF ~response.body
                  THEN Finish("get_destination", a, <<request>>, "None", NoValue)
                  ELSE Finish("get_destination", a, <<request>>, "None",
                              [kind |-> "DestinationResponse",
                               destination_id |-> destination_id,
                               configuration |-> ConfigurationClass(destination_type)])
             ELSE Finish("get_destination", a, <<request>>,
                         "AirbyteMissingResourceError", NoValue)
    /\ UNCHANGED server

\* --------------------------------------------------------- the API server
\* What the tests rely on: a create request with a usable configuration is
\* answered 200 with the new resource, which carries the requested name and
\* a fresh non-empty id; a create request for a connection is accepted when
\* the server holds its source and destination; a delete request is
\* answered 204 when the server holds the id and 404 when it does not.
Ids(resources, field) == {r[field] : r \in resources}

Accepted(body) == [status_code |-> 200, body |-> body]
Rejected(status_code) == [status_code |-> status_code, body |-> NoValue]

ServerCreateSource(request) ==
    IF request.configuration # "invalid"
    THEN LET source_response ==
                 [source_id |-> IdStr(server.next_id), name |-> request.name,
                  source_type |-> request.configuration,
                  workspace_id |-> request.workspace_id]
         IN [response |-> Accepted(source_response),
             server |-> [server EXCEPT !.sources = @ \cup {source_response},
                                       !.next_id = @ + 1]]
    ELSE [response |-> Rejected(400), server |-> server]

ServerCreateDestination(request) ==
    IF request.configuration # "invalid"
    THEN LET destination_response ==
                 [destination_id |-> IdStr(server.next_id), name |-> request.name,
                  destination_type |-> request.configuration,
                  workspace_id |-> request.workspace_id]
         IN [response |-> Accepted(destination_response),
             server |-> [server EXCEPT
                            !.destinations = @ \cup {destination_response},
                            !.next_id = @ + 1]]
    ELSE [response |-> Rejected(400), server |-> server]

ServerCreateConnection(request) ==
    IF /\ request.source_id \in Ids(server.sources, "source_id")
       /\ request.destination_id \in Ids(server.destinations, "destination_id")
    THEN LET connection_response ==
                 [connection_id |-> IdStr(server.next_id), name |-> request.name,
                  source_id |-> request.source_id,
                  destination_id |-> request.destination_id,
                  configurations |-> request.configurations,
                  prefix |-> request.prefix]
         IN [response |-> Accepted(connection_response),
             server |-> [server EXCEPT
                            !.connections = @ \cup {connection_response},
                            !.next_id = @ + 1]]
    ELSE [response |-> Rejected(400), server |-> server]

ServerDelete(collection, field, id) ==
    IF id \in Ids(server[collection], field)
    THEN [response |-> [status_code |-> 204, body |-> NoValue],
          server |-> [server EXCEPT
                         ![collection] = {r \in @ : r[field] # id}]]
    ELSE [response |-> Rejected(404), server |-> server]

\* --------------------------------- create and delete sources, destinations
SourceCreateRequestUnnamed(name, workspace_id, config) ==
    [op |-> "create_source", name |-> "", workspace_id |-> workspace_id,
     configuration |-> config]

SourceCreateRequest(name, workspace_id, config) ==
    [op |-> "create_source", name |-> name, workspace_id |-> workspace_id,
     configuration |-> config]

create_source(name, workspace_id, config) ==
    LET request == SourceCreateRequest(name, workspace_id, config)
        a == [name |-> name, workspace_id |-> workspace_id, config |-> config]
        reply == ServerCreateSource(request)
        response == reply.response
    IN
    /\ server' = reply.server
    /\ last_response' = response
    /\ IF status_ok(response.status_code) /\ response.body # NoValue
       THEN Finish("create_source", a, <<request>>, "None", response.body)
       ELSE Finish("create_source", a, <<request>>, "AirbyteError", NoValue)

delete_source(source_id) ==
    LET request == [op |-> "delete_source", source_id |-> source_id]
        reply == ServerDelete("sources", "source_id", request.source_id)
        response == reply.response
    IN
    /\ server' = reply.server
    /\ last_response' = response
    /\ IF ~status_ok(response.status_code)
       THEN Finish("delete_source", [source_id |-> source_id], <<request>>,
                   "AirbyteError", NoValue)
       ELSE Finish("delete_source", [source_id |-> source_id], <<request>>,
                   "None", NoValue)

DestinationCreateRequest(name, workspace_id, config) ==
    [op |-> "create_destination", name |-> name, workspace_id |-> workspace_id,
     configuration |-> config]

create_destination(name, workspace_id, config) ==
    LET request == DestinationCreateRequest(name, workspace_id, config)
        a == [name |-> name, workspace_id |-> workspace_id, config |-> config]
        reply == ServerCreateDestination(request)
        response == reply.response
    IN
    /\ server' = reply.server
    /\ last_response' = response
    /\ IF status_ok(response.status_code) /\ response.body # NoValue
       THEN Finish("create_destination", a, <<request>>, "None", response.body)
       ELSE Finish("create_destination", a, <<request>>, "AirbyteError", NoValue)

delete_destination(destination_id) ==
    LET request == [op |-> "delete_destination", destination_id |-> destination_id]
        reply == ServerDelete("destinations", "destination_id",
                              request.destination_id)
        response == reply.response
    IN
    /\ server' = reply.server
    /\ last_response' = response
    /\ IF ~status_ok(response.status_code)
       THEN Finish("delete_destination", [destination_id |-> destination_id],
                   <<request>>, "AirbyteError", NoValue)
       ELSE Finish("delete_destination", [destination_id |-> destination_id],
                   <<request>>, "None", NoValue)

\* ------------------------------------------ create and delete connections
\* if selected_stream_names: one StreamConfiguration per name, else None.
StreamConfigurations(selected_stream_names) ==
    IF selected_stream_names # <<>>
    THEN [kind |-> "StreamConfigurations",
          streams |-> [i \in 1..Len(selected_stream_names) |->
                          [name |-> selected_stream_names[i]]]]
    ELSE NoValue

ConnectionCreateRequestSwapped(name, source_id, destination_id, prefix, selected_stream_names) ==
    [op |-> "create_connection", name |-> name, source_id |-> destination_id,
     destination_id |-> source_id,
     configurations |-> StreamConfigurations(selected_stream_names),
     prefix |-> prefix]

ConnectionCreateRequest(name, source_id, destination_id, prefix, selected_stream_names) ==
    [op |-> "create_connection", name |-> name, source_id |-> source_id,
     destination_id |-> destination_id,
     configurations |-> StreamConfigurations(selected_stream_names),
     prefix |-> prefix]

create_connection(name, source_id, destination_id, prefix, selected_stream_names) ==
    LET request == ConnectionCreateRequest(name, source_id, destination_id, prefix,
                                           selected_stream_names)
        a == [name |-> name, source_id |-> source_id,
              destination_id |-> destination_id, prefix |-> prefix,
              selected_stream_names |-> selected_stream_names]
        reply == ServerCreateConnection(request)
        response == reply.response
    IN
    /\ server' = reply.server
    /\ last_response' = response
    /\ IF ~status_ok(response.status_code)
       THEN Finish("create_connection", a, <<request>>, "AirbyteError", NoValue)
       ELSE Finish("create_connection", a, <<request>>, "None", response.body)

delete_connection(connection_id) ==
    LET request == [op |-> "delete_connection", connection_id |-> connection_id]
        reply == ServerDelete("connections", "connection_id", request.connection_id)
        response == reply.response
    IN
    /\ server' = reply.server
    /\ last_response' = response
    /\ IF ~status_ok(response.status_code)
       THEN Finish("delete_connection", [connection_id |-> connection_id],
                   <<request>>, "AirbyteError", NoValue)
       ELSE Finish("delete_connection", [connection_id |-> connection_id],
                   <<request>>, "None", NoValue)

\* ------------------------------------------------ check_connector_config
\* A transformation that hands any other root through unchanged.
transform_legacy_api_root_passthrough(api_root) ==
    IF api_root = CLOUD_API_ROOT
    THEN [raised |-> "None", result |-> LEGACY_API_ROOT]
    ELSE [raised |-> "None", result |-> api_root]

transform_legacy_api_root(api_root) ==
    IF api_root = CLOUD_API_ROOT
    THEN [raised |-> "None", result |-> LEGACY_API_ROOT]
    ELSE [raised |-> "NotImplementedError", result |-> "None"]

ConnectorTypes == {"source", "destination"}

\* A reply of the Config API: the HTTP status code, whether the body parses
\* as a JSON object, and the object's "status" field ("None" when missing).
CheckReplies ==
    [status_code : {200, 201, 400, 500}, json : BOOLEAN,
     status : {"succeeded", "failed", "None"}]

\* requests.Response.raise_for_status raises for 4xx and 5xx.
raise_for_status(response) ==
    response.status_code >= 400 /\ response.status_code < 600

\* A status test that takes only an explicit "failed" for a failure.
check_failed_only_on_failed(response_json) ==
    response_json.status = "failed"

\* if not response_json.get("status", None) == "succeeded"
check_failed(response_json) ==
    ~(response_json.status = "succeeded")

check_connector_config(connector_id, connector_type, workspace_id, api_root) ==
    LET a == [connector_id |-> connector_id, connector_type |-> connector_type,
              workspace_id |-> workspace_id, api_root |-> api_root]
        legacy_api_root == transform_legacy_api_root(api_root)
    IN
    /\ IF legacy_api_root.raised # "None"
       THEN /\ last_response' = NoValue
            /\ Finish("check_connector_config", a, <<>>, legacy_api_root.raised,
                      NoValue)
       ELSE \E response \in CheckReplies :
               LET request ==
                       [op |-> "POST",
                        url |-> <<legacy_api_root.result, "/", connector_type,
                                  "s/check_connection">>,
                        json |-> <<connector_type, "Id", connector_id>>]
               IN
               /\ last_response' = response
               /\ IF raise_for_status(response)
                  THEN Finish("check_connector_config", a, <<request>>, "HTTPError",
                              NoValue)
                  ELSE IF ~response.json
                  THEN Finish("check_connector_config", a, <<request>>,
                              "JSONDecodeError", NoValue)
                  ELSE IF check_failed(response)
                  THEN Finish("check_connector_config", a, <<request>>,
                              "AirbyteConnectorCheckFailedError", NoValue)
                  ELSE Finish("check_connector_config", a, <<request>>, "None",
                              NoValue)
    /\ UNCHANGED server

\* ------------------------------------------------------ direct calls
\* The ids a caller may pass: ids the server may hold and one it never does.
RequestIds == {IdStr(1), IdStr(2), IdStr(9)}
JobIds == {"job-1", "job-2"}
JobLimits == {1, 20}

call_get_workspace ==
    /\ Direct
    /\ \E workspace_id \in WorkspaceIds : get_workspace(workspace_id)

call_get_connection ==
    /\ Direct
    /\ \E workspace_id \in WorkspaceIds, connection_id \in RequestIds :
          get_connection(workspace_id, connection_id)

call_run_connection ==
    /\ Direct
    /\ \E workspace_id \in WorkspaceIds, connection_id \in RequestIds :
          run_connection(workspace_id, connection_id)

call_get_job_logs ==
    /\ Direct
    /\ \E workspace_id \in WorkspaceIds, connection_id \in RequestIds,
          job_limit \in JobLimits :
          get_job_logs(workspace_id, connection_id, job_limit)

call_get_job_info ==
    /\ Direct
    /\ \E job_id \in JobIds : get_job_info(job_id)

call_create_source ==
    /\ Direct
    /\ \E name \in ResourceNames, workspace_id \in WorkspaceIds,
          config \in SourceConfigs :
          create_source(name, workspace_id, config)

call_get_source ==
    /\ Direct
    /\ \E source_id \in RequestIds : get_source(source_id)

call_delete_source ==
    /\ Direct
    /\ \E source_id \in RequestIds : delete_source(source_id)

call_create_destination ==
    /\ Direct
    /\ \E name \in ResourceNames, workspace_id \in WorkspaceIds,
          config \in DestinationConfigs :
          create_destination(name, workspace_id, config)

call_get_destination ==
    /\ Direct
    /\ \E destination_id \in RequestIds : get_destination(destination_id)

call_delete_destination ==
    /\ Direct
    /\ \E destination_id \in RequestIds : delete_destination(destination_id)

call_create_connection ==
    /\ Direct
    /\ \E name \in ResourceNames, source_id \in RequestIds,
          destination_id \in RequestIds,
          selected_stream_names \in StreamNameLists :
          create_connection(name, source_id, destination_id, "",
                            selected_stream_names)

call_delete_connection ==
    /\ Direct
    /\ \E connection_id \in RequestIds : delete_connection(connection_id)

call_check_connector_config ==
    /\ Direct
    /\ \E connector_id \in RequestIds, connector_type \in ConnectorTypes,
          workspace_id \in WorkspaceIds, api_root \in ApiRoots :
          check_connector_config(connector_id, connector_type, workspace_id,
                                 api_root)


\* ------------------------------------------------- calls with keywords
\* The parameters of the functions the integration tests call. Every one of
\* them can be passed by keyword; the ones with a default may be left out.
Parameters(f) ==
    CASE f = "get_workspace" ->
            [required |-> {"workspace_id", "api_root", "api_key"}, optional |-> {}]
      [] f = "create_source" ->
            [required |-> {"name", "workspace_id", "config", "api_root", "api_key"},
             optional |-> {}]
      [] f = "delete_source" ->
            [required |-> {"source_id", "api_root", "api_key"},
             optional |-> {"workspace_id"}]
      [] f = "create_destination" ->
            [required |-> {"name", "workspace_id", "config", "api_root", "api_key"},
             optional |-> {}]
      [] f = "delete_destination" ->
            [required |-> {"destination_id", "api_root", "api_key"},
             optional |-> {"workspace_id"}]
      [] f = "create_connection" ->
            [required |-> {"name", "source_id", "destination_id", "api_root",
                           "api_key", "prefix"},
             optional |-> {"workspace_id", "selected_stream_names"}]
      [] f = "delete_connection" ->
            [required |-> {"connection_id", "api_root", "workspace_id", "api_key"},
             optional |-> {}]

\* What Python does with a call f(**kw): TypeError for a keyword the function
\* does not have and for a required parameter left out.
BindKeywords(f, kw) ==
    IF \E k \in kw : k \notin Parameters(f).required \cup Parameters(f).optional
    THEN "TypeError"
    ELSE IF \E p \in Parameters(f).required : p \notin kw
    THEN "TypeError"
    ELSE "None"

\* The credentials of a call: the api_key of the signatures, or the
\* client_id and client_secret of the integration tests.
ApiKeyCredentials == {"api_key"}
ClientCredentials == {"client_id", "client_secret"}
CredentialKeywords == {ApiKeyCredentials, ClientCredentials}

\* The keywords other than the credentials that the tests pass to f.
TestKeywords(f) ==
    CASE f = "get_workspace" -> {"workspace_id", "api_root"}
      [] f = "create_source" -> {"name", "workspace_id", "config", "api_root"}
      [] f = "delete_source" -> {"source_id", "api_root", "workspace_id"}
      [] f = "create_destination" -> {"name", "api_root", "workspace_id", "config"}
      [] f = "delete_destination" -> {"destination_id", "api_root", "workspace_id"}
      [] f = "create_connection" ->
            {"name", "api_root", "workspace_id", "source_id", "destination_id",
             "prefix", "selected_stream_names"}
      [] f = "delete_connection" -> {"connection_id", "api_root", "workspace_id"}

\* The call never reaches the body of f: TypeError, and no request.
RejectCall(f) ==
    /\ Finish(f, args, <<>>, "TypeError", NoValue)
    /\ last_response' = NoValue
    /\ UNCHANGED server

\* A call of f made the way the tests make it, with one of the two kinds of
\* credentials; body is the function called with the arguments bound.
CallWithKeywords(f, credentials, body) ==
    /\ prog = "idle"
    /\ prog' = "call"
    /\ keywords' = TestKeywords(f) \cup credentials
    /\ IF BindKeywords(f, TestKeywords(f) \cup credentials) = "None"
       THEN body
       ELSE RejectCall(f)
    /\ UNCHANGED <<tpc, locals, bqvars, jsonlvars, convvars, writervars,
                   server_connections>>

keywords_get_workspace ==
    /\ prog = "idle"
    /\ \E credentials \in CredentialKeywords, workspace_id \in WorkspaceIds :
           CallWithKeywords("get_workspace", credentials, get_workspace(workspace_id))

keywords_create_source ==
    /\ prog = "idle"
    /\ \E credentials \in CredentialKeywords, name \in ResourceNames,
          workspace_id \in WorkspaceIds, config \in SourceConfigs :
           CallWithKeywords("create_source", credentials,
                            create_source(name, workspace_id, config))

keywords_delete_source ==
    /\ prog = "idle"
    /\ \E credentials \in CredentialKeywords, source_id \in RequestIds :
           CallWithKeywords("delete_source", credentials, delete_source(source_id))

keywords_create_destination ==
    /\ prog = "idle"
    /\ \E credentials \in CredentialKeywords, name \in ResourceNames,
          workspace_id \in WorkspaceIds, config \in DestinationConfigs :
           CallWithKeywords("create_destination", credentials,
                            create_destination(name, workspace_id, config))

keywords_delete_destination ==
    /\ prog = "idle"
    /\ \E credentials \in CredentialKeywords, destination_id \in RequestIds :
           CallWithKeywords("delete_destination", credentials,
                            delete_destination(destination_id))

keywords_create_connection ==
    /\ prog = "idle"
    /\ \E credentials \in CredentialKeywords, name \in ResourceNames,
          source_id \in RequestIds, destination_id \in RequestIds,
          selected_stream_names \in StreamNameLists :
           CallWithKeywords("create_connection", credentials,
                            create_connection(name, source_id, destination_id, "",
                                              selected_stream_names))

keywords_delete_connection ==
    /\ prog = "idle"
    /\ \E credentials \in CredentialKeywords, connection_id \in RequestIds :
           CallWithKeywords("delete_connection", credentials,
                            delete_connection(connection_id))

NextCredentials ==
    \/ keywords_get_workspace
    \/ keywords_create_source
    \/ keywords_delete_source
    \/ keywords_create_destination
    \/ keywords_delete_destination
    \/ keywords_create_connection
    \/ keywords_delete_connection

\* ---------------------------------------- the create-and-delete scenarios
\* The call sequences of test_create_and_delete_source,
\* test_create_and_delete_destination and test_create_and_delete_connection,
\* with the credentials passed as the api_key the functions declare.
Tests == {"test_create_and_delete_source", "test_create_and_delete_destination",
          "test_create_and_delete_connection"}

FirstStep(test) ==
    IF test = "test_create_and_delete_destination"
    THEN "create_destination" ELSE "create_source"

run_test ==
    /\ prog = "idle"
    /\ \E test \in Tests, workspace_id \in WorkspaceIds :
          /\ prog' = test
          /\ tpc' = FirstStep(test)
          /\ locals' = [NoLocals EXCEPT !.workspace_id = workspace_id]
    /\ UNCHANGED <<server, callvars, genvars, bqvars, jsonlvars, convvars, writervars, keywords, server_connections>>

test_create_source ==
    /\ prog \in {"test_create_and_delete_source", "test_create_and_delete_connection"}
    /\ tpc = "create_source"
    /\ \E new_resource_name \in ResourceNames :
          /\ create_source(new_resource_name, locals.workspace_id, "faker")
          /\ IF raised' # "None"
             THEN tpc' = "error" /\ UNCHANGED locals
             ELSE /\ locals' = [locals EXCEPT !.source = value']
                  /\ tpc' = IF /\ value'.name = new_resource_name
                               /\ value'.source_type = "faker"
                               /\ value'.source_id # EmptyStr
                            THEN IF prog = "test_create_and_delete_source"
                                 THEN "delete_source" ELSE "create_destination"
                            ELSE "failed"
    /\ UNCHANGED <<prog, bqvars, jsonlvars, convvars, writervars, keywords, server_connections>>

test_create_destination ==
    /\ prog \in {"test_create_and_delete_destination",
                 "test_create_and_delete_connection"}
    /\ tpc = "create_destination"
    /\ \E new_resource_name \in ResourceNames :
          /\ create_destination(new_resource_name, locals.workspace_id, "duckdb")
          /\ IF raised' # "None"
             THEN tpc' = "error" /\ UNCHANGED locals
             ELSE /\ locals' = [locals EXCEPT !.destination = value']
                  /\ tpc' = IF /\ value'.name = new_resource_name
                               /\ value'.destination_type = "duckdb"
                               /\ value'.destination_id # EmptyStr
                            THEN IF prog = "test_create_and_delete_destination"
                                 THEN "delete_destination" ELSE "create_connection"
                            ELSE "failed"
    /\ UNCHANGED <<prog, bqvars, jsonlvars, convvars, writervars, keywords, server_connections>>

test_create_connection ==
    /\ prog = "test_create_and_delete_connection"
    /\ tpc = "create_connection"
    /\ \E new_connection_name \in ResourceNames :
          /\ create_connection(new_connection_name, locals.source.source_id,
                               locals.destination.destination_id, "",
                               <<"users", "purchases", "products">>)
          /\ IF raised' # "None"
             THEN tpc' = "error" /\ UNCHANGED locals
             ELSE IF value' = NoValue
             THEN tpc' = "error" /\ UNCHANGED locals
             ELSE /\ locals' = [locals EXCEPT !.connection = value']
                  /\ tpc' = IF /\ value'.source_id = locals.source.source_id
                               /\ value'.destination_id
                                     = locals.destination.destination_id
                               /\ value'.connection_id # EmptyStr
                            THEN "delete_connection"
                            ELSE "failed"
    /\ UNCHANGED <<prog, bqvars, jsonlvars, convvars, writervars, keywords, server_connections>>

test_delete_connection ==
    /\ prog = "test_create_and_delete_connection"
    /\ tpc = "delete_connection"
    /\ delete_connection(locals.connection.connection_id)
    /\ tpc' = IF raised' # "None" THEN "error" ELSE "delete_source"
    /\ UNCHANGED <<prog, locals, bqvars, jsonlvars, convvars, writervars, keywords, server_connections>>

test_delete_source ==
    /\ prog \in {"test_create_and_delete_source", "test_create_and_delete_connection"}
    /\ tpc = "delete_source"
    /\ delete_source(locals.source.source_id)
    /\ tpc' = IF raised' # "None" THEN "error"
              ELSE IF prog = "test_create_and_delete_source"
              THEN "passed" ELSE "delete_destination"
    /\ UNCHANGED <<prog, locals, bqvars, jsonlvars, convvars, writervars, keywords, server_connections>>

test_delete_destination ==
    /\ prog \in {"test_create_and_delete_destination",
                 "test_create_and_delete_connection"}
    /\ tpc = "delete_destination"
    /\ delete_destination(locals.destination.destination_id)
    /\ tpc' = IF raised' # "None" THEN "error" ELSE "passed"
    /\ UNCHANGED <<prog, locals, bqvars, jsonlvars, convvars, writervars, keywords, server_connections>>

NextApi ==
    \/ call_get_workspace
    \/ call_list_connections
    \/ ListConnectionsPage
    \/ call_get_connection
    \/ call_run_connection
    \/ call_get_job_logs
    \/ call_get_job_info
    \/ call_create_source
    \/ call_get_source
    \/ call_delete_source
    \/ call_create_destination
    \/ call_get_destination
    \/ call_delete_destination
    \/ call_create_connection
    \/ call_get_connection_by_name
    \/ GetConnectionByNameFound
    \/ call_delete_connection
    \/ call_check_connector_config
    \/ run_test
    \/ test_create_source
    \/ test_create_destination
    \/ test_create_connection
    \/ test_delete_connection
    \/ test_delete_source
    \/ test_delete_destination

\* ===================================================== caches/bigquery.py
\* The warehouse is a map from (project, dataset, table) to the rows of the
\* table; a key outside its domain is a table that does not exist.
HardCodedProject == "dataline-integration-testing"
HardCodedDataset == "airbyte_raw"

BigQueryConfigs ==
    [project : {HardCodedProject, "my-project"},
     schema_name : {HardCodedDataset, "my_dataset"}]

StreamNames == {"users", "purchases"}
BatchIds == {"01HX"}

\* The Parquet files of a batch: their rows, and whether they carry the
\* created_at and updated_at columns the loader converts.
ParquetFiles ==
    { [path |-> "f1", rows |-> <<1>>, timestamps |-> TRUE],
      [path |-> "f2", rows |-> <<2, 3>>, timestamps |-> TRUE],
      [path |-> "f3", rows |-> <<4>>, timestamps |-> FALSE] }

NoTables == [k \in {} |-> <<>>]

TableKey(project, dataset, table_name) == <<project, dataset, table_name>>

\* Removing a table from the warehouse.
DropKey(wh, key) == [k \in (DOMAIN wh) \ {key} |-> wh[k]]

\* f"`{self.config.schema_name}.{table_name!s}`"
fully_qualified(table_name) == <<bq_config.schema_name, table_name>>

\* The table a name denotes for the processor's own SQL connection: the
\* configured project and the configured schema.
StagingKey(table_name) ==
    TableKey(bq_config.project, fully_qualified(table_name)[1],
             fully_qualified(table_name)[2])

\* _get_tables_list: the names of the tables of the configured schema.
get_tables_list ==
    {k[3] : k \in {t \in DOMAIN warehouse :
                      t[1] = bq_config.project /\ t[2] = bq_config.schema_name}}

table_exists(table_name) == table_name \in get_tables_list

\* The name _create_table_for_loading gives the staging table of a batch.
TempTableName(stream_name, batch_id) == <<stream_name, "_", batch_id>>

\* pandas_gbq.to_gbq: with if_exists="append" the rows are added to the
\* destination table, which is created when it does not exist; "replace"
\* overwrites what the table held.
to_gbq(wh, rows, destination_key, if_exists) ==
    IF destination_key \in DOMAIN wh /\ if_exists = "append"
    THEN [wh EXCEPT ![destination_key] = @ \o rows]
    ELSE (destination_key :> rows) @@ wh

\* An if_exists that replaces.
if_exists_replace == "replace"

\* if_exists="append"
if_exists == "append"

\* destination_table=f"airbyte_raw.{temp_table_name}",
\* project_id="dataline-integration-testing"
DestinationKey(table_name) ==
    TableKey(HardCodedProject, HardCodedDataset, table_name)

bq_unchanged_others == UNCHANGED <<apivars, jsonlvars, convvars, writervars, keywords, server_connections>>

\* The call, and its first statement: the staging table is created.
create_table_for_loading ==
    /\ bq_pc = "idle"
    /\ \E files \in SeqsUpTo(ParquetFiles, MaxFiles), stream_name \in StreamNames,
          batch_id \in BatchIds :
          LET name == TempTableName(stream_name, batch_id) IN
          /\ bq_args' = [files |-> files, stream_name |-> stream_name,
                         batch_id |-> batch_id]
          /\ temp_table_name' = name
          /\ warehouse' = IF StagingKey(name) \in DOMAIN warehouse
                          THEN warehouse
                          ELSE (StagingKey(name) :> <<>>) @@ warehouse
          /\ bq_log' = Append(bq_log, [ev |-> "create", table |-> StagingKey(name)])
          /\ bq_index' = 1
          /\ IF files = <<>>
             THEN bq_pc' = "returned" /\ bq_returned' = name
             ELSE bq_pc' = "loop" /\ UNCHANGED bq_returned
    /\ UNCHANGED <<bq_config, bq_raised>>
    /\ bq_unchanged_others

\* One turn of  for file_path in files : the existence check, the timestamp
\* conversion and the load of the file's rows.
load_file ==
    /\ bq_pc = "loop"
    /\ LET file == bq_args.files[bq_index]
           destination == DestinationKey(temp_table_name)
       IN
       IF ~table_exists(temp_table_name)
       THEN /\ bq_pc' = "raised"
            /\ bq_raised' = "AirbyteLibInternalError"
            /\ UNCHANGED <<warehouse, bq_log, bq_index, bq_returned>>
       ELSE IF ~file.timestamps
       THEN /\ bq_pc' = "raised"
            /\ bq_raised' = "KeyError"
            /\ UNCHANGED <<warehouse, bq_log, bq_index, bq_returned>>
       ELSE /\ warehouse' = to_gbq(warehouse, file.rows, destination, if_exists)
            /\ bq_log' = Append(bq_log,
                  [ev |-> "load", file |-> file, table |-> destination,
                   auto_created |-> destination \notin DOMAIN warehouse,
                   before |-> IF destination \in DOMAIN warehouse
                              THEN warehouse[destination] ELSE <<>>,
                   after |-> warehouse'[destination]])
            /\ bq_index' = bq_index + 1
            /\ IF bq_index = Len(bq_args.files)
               THEN bq_pc' = "returned" /\ bq_returned' = temp_table_name
               ELSE UNCHANGED <<bq_pc, bq_returned>>
            /\ UNCHANGED bq_raised
    /\ UNCHANGED <<bq_config, bq_args, temp_table_name>>
    /\ bq_unchanged_others

\* Another user of the warehouse drops a table while the batch is loading.
drop_table ==
    /\ bq_pc = "loop"
    /\ \E key \in DOMAIN warehouse : warehouse' = DropKey(warehouse, key)
    /\ UNCHANGED <<bq_config, bq_pc, bq_args, bq_index, temp_table_name, bq_log,
                   bq_raised, bq_returned>>
    /\ bq_unchanged_others

NextBigQuery ==
    \/ create_table_for_loading
    \/ load_file
    \/ drop_table

\* ================================================ _processors/file/jsonl.py
\* Bytes are named by one-character strings, with LF, QUOTE and BACKSLASH
\* for the bytes 0x0A, 0x22 and 0x5C.
LF == "LF"
QUOTE == "QUOTE"
BACKSLASH == "BACKSLASH"

\* Record values: str, int and None.
StrValue(s) == [t |-> "str", s |-> s, n |-> 0]
IntValue(n) == [t |-> "int", s |-> <<>>, n |-> n]
NullValue == [t |-> "null", s |-> <<>>, n |-> 0]

RecordStrings == {<<>>, <<"x">>, <<LF>>, <<QUOTE>>, <<BACKSLASH>>, <<"x", LF>>}
RecordValues ==
    {StrValue(s) : s \in RecordStrings} \cup {IntValue(0), IntValue(7), NullValue}

\* A record is a dict: its items, in insertion order.
Item(k, v) == [key |-> k, val |-> v]
StreamRecords ==
    {<<>>}
    \cup {<<Item(<<"a">>, v)>> : v \in RecordValues}
    \cup {<<Item(<<"a">>, v), Item(<<"b">>, w)>> :
             v \in RecordValues, w \in {IntValue(7), StrValue(<<LF>>)}}

\* orjson.dumps: compact JSON, no raw line feed in the output.
EscapeChar(c) ==
    CASE c = LF -> <<BACKSLASH, "n">>
      [] c = QUOTE -> <<BACKSLASH, QUOTE>>
      [] c = BACKSLASH -> <<BACKSLASH, BACKSLASH>>
      [] OTHER -> <<c>>

RECURSIVE EscapeStr(_)
EscapeStr(s) == IF s = <<>> THEN <<>> ELSE EscapeChar(Head(s)) \o EscapeStr(Tail(s))

DumpsStr(s) == <<QUOTE>> \o EscapeStr(s) \o <<QUOTE>>

Digit(n) == CASE n = 0 -> "0" [] n = 7 -> "7" [] OTHER -> "?"

DumpsValue(v) ==
    CASE v.t = "str" -> DumpsStr(v.s)
      [] v.t = "int" -> <<Digit(v.n)>>
      [] OTHER -> <<"n", "u", "l", "l">>

RECURSIVE DumpsItems(_)
DumpsItems(items) ==
    IF items = <<>> THEN <<>>
    ELSE DumpsStr(Head(items).key) \o <<":">> \o DumpsValue(Head(items).val)
         \o (IF Tail(items) = <<>> THEN <<>> ELSE <<",">>)
         \o DumpsItems(Tail(items))

orjson_dumps(record_dict) == <<"{">> \o DumpsItems(record_dict) \o <<"}">>

\* A JSON decoder for the same fragment, used to read the lines back.
NoParse == [ok |-> FALSE, val |-> <<>>, rest |-> <<>>]

RECURSIVE ScanString(_, _)
ScanString(b, acc) ==
    IF b = <<>> THEN NoParse
    ELSE IF Head(b) = QUOTE THEN [ok |-> TRUE, val |-> acc, rest |-> Tail(b)]
    ELSE IF Head(b) = LF THEN NoParse
    ELSE IF Head(b) = BACKSLASH
    THEN IF Len(b) < 2 THEN NoParse
         ELSE LET c == b[2] IN
              IF c = "n" THEN ScanString(Tail(Tail(b)), Append(acc, LF))
              ELSE IF c \in {QUOTE, BACKSLASH}
              THEN ScanString(Tail(Tail(b)), Append(acc, c))
              ELSE NoParse
    ELSE ScanString(Tail(b), Append(acc, Head(b)))

LoadsString(b) ==
    IF b # <<>> /\ Head(b) = QUOTE THEN ScanString(Tail(b), <<>>) ELSE NoParse

LoadsValue(b) ==
    IF b = <<>> THEN NoParse
    ELSE IF Head(b) = QUOTE
    THEN LET r == LoadsString(b) IN
         IF r.ok THEN [ok |-> TRUE, val |-> StrValue(r.val), rest |-> r.rest]
         ELSE [ok |-> FALSE, val |-> NullValue, rest |-> <<>>]
    ELSE IF Head(b) = "0" THEN [ok |-> TRUE, val |-> IntValue(0), rest |-> Tail(b)]
    ELSE IF Head(b) = "7" THEN [ok |-> TRUE, val |-> IntValue(7), rest |-> Tail(b)]
    ELSE IF Len(b) >= 4 /\ SubSeq(b, 1, 4) = <<"n", "u", "l", "l">>
    THEN [ok |-> TRUE, val |-> NullValue, rest |-> SubSeq(b, 5, Len(b))]
    ELSE [ok |-> FALSE, val |-> NullValue, rest |-> <<>>]

RECURSIVE LoadsItems(_, _)
LoadsItems(b, acc) ==
    LET k == LoadsString(b) IN
    IF ~k.ok \/ k.rest = <<>> \/ Head(k.rest) # ":" THEN NoParse
    ELSE LET v == LoadsValue(Tail(k.rest)) IN
         IF ~v.ok \/ v.rest = <<>> THEN NoParse
         ELSE LET items == Append(acc, Item(k.val, v.val)) IN
              IF v.rest = <<"}">> THEN [ok |-> TRUE, val |-> items, rest |-> <<>>]
              ELSE IF Head(v.rest) = "," THEN LoadsItems(Tail(v.rest), items)
              ELSE NoParse

json_loads(b) ==
    IF b = <<"{", "}">> THEN [ok |-> TRUE, val |-> <<>>, rest |-> <<>>]
    ELSE IF b # <<>> /\ Head(b) = "{" THEN LoadsItems(Tail(b), <<>>)
    ELSE NoParse

\* The lines of a byte string: the pieces ended by a line feed, and what
\* follows the last line feed when it is not empty.
RECURSIVE SplitLines(_, _)
SplitLines(b, line) ==
    IF b = <<>> THEN (IF line = <<>> THEN <<>> ELSE <<line>>)
    ELSE IF Head(b) = LF THEN <<line>> \o SplitLines(Tail(b), <<>>)
    ELSE SplitLines(Tail(b), Append(line, Head(b)))

jsonl_unchanged_others == UNCHANGED <<apivars, bqvars, convvars, writervars, keywords, server_connections>>

\* _open_new_file: gzip.open(file_path, "w") gives an empty file.
open_new_file ==
    /\ ~jsonl_open
    /\ jsonl_open' = TRUE
    /\ jsonl_content' = <<>>
    /\ jsonl_written' = <<>>
    /\ jsonl_unchanged_others

\* What one record adds to the file with no line feed after it.
RecordBytesUnterminated(record_dict) == orjson_dumps(record_dict)

\* orjson.dumps(record_dict) + b"\n"
RecordBytes(record_dict) == orjson_dumps(record_dict) \o <<LF>>

\* _write_record_dict
write_record_dict ==
    /\ jsonl_open
    /\ Len(jsonl_written) < MaxRecords
    /\ \E record_dict \in StreamRecords :
          /\ jsonl_content' = jsonl_content \o RecordBytes(record_dict)
          /\ jsonl_written' = Append(jsonl_written, record_dict)
    /\ UNCHANGED jsonl_open
    /\ jsonl_unchanged_others

NextJsonl ==
    \/ open_new_file
    \/ write_record_dict


\* ------------------------------------------------------ BigQueryConverter
\* The JSON-schema property definitions handed to the converter: the "type"
\* and the "format" of a property ("geometry" is a type no converter knows).
JsonSchemaTypes ==
    {"string", "integer", "number", "boolean", "object", "array", "geometry"}
JsonSchemaFormats == {"None", "date", "date-time", "time"}
JsonSchemaPropertyDefs == [type : JsonSchemaTypes, format : JsonSchemaFormats]

\* The classes of sqlalchemy.types the converters deal with, and the classes
\* each one derives from.
SqlTypeClasses ==
    {"VARCHAR", "BIGINT", "DECIMAL", "BOOLEAN", "DATE", "TIMESTAMP", "TIME", "JSON"}

Bases(class) ==
    CASE class = "VARCHAR"   -> {"String", "TypeEngine"}
      [] class = "BIGINT"    -> {"BigInteger", "Integer", "TypeEngine"}
      [] class = "DECIMAL"   -> {"Numeric", "TypeEngine"}
      [] class = "BOOLEAN"   -> {"Boolean", "TypeEngine"}
      [] class = "DATE"      -> {"Date", "TypeEngine"}
      [] class = "TIMESTAMP" -> {"DateTime", "TypeEngine"}
      [] class = "TIME"      -> {"Time", "TypeEngine"}
      [] class = "JSON"      -> {"TypeEngine"}
      [] OTHER               -> {}

\* An instance of a sqlalchemy type class, and a Python str.
TypeObject(class) == [kind |-> "TypeEngine", class |-> class]
PyStr(text) == [kind |-> "str", value |-> text]

\* isinstance(obj, class)
isinstance(obj, class) ==
    /\ obj.kind = "TypeEngine"
    /\ class \in {obj.class} \cup Bases(obj.class)

\* SQLTypeConverter.to_sql_type, the parent class method: the SQLAlchemy type
\* object for a property definition, VARCHAR when the type is not known.
SQLTypeConverter_to_sql_type(json_schema_property_def) ==
    LET type == json_schema_property_def.type
        format == json_schema_property_def.format
    IN  CASE type = "string" /\ format = "date"      -> TypeObject("DATE")
          [] type = "string" /\ format = "date-time" -> TypeObject("TIMESTAMP")
          [] type = "string" /\ format = "time"      -> TypeObject("TIME")
          [] type = "string" /\ format = "None"      -> TypeObject("VARCHAR")
          [] type = "integer"                        -> TypeObject("BIGINT")
          [] type = "number"                         -> TypeObject("DECIMAL")
          [] type = "boolean"                        -> TypeObject("BOOLEAN")
          [] type \in {"object", "array"}            -> TypeObject("JSON")
          [] OTHER                                   -> TypeObject("VARCHAR")

\* A to_sql_type that hands back the parent's type object when it is neither
\* a VARCHAR nor a BIGINT.
to_sql_type_passing_type_objects(json_schema_property_def) ==
    LET sql_type == SQLTypeConverter_to_sql_type(json_schema_property_def) IN
    IF isinstance(sql_type, "VARCHAR") THEN PyStr("String")
    ELSE IF isinstance(sql_type, "BIGINT") THEN PyStr("INT64")
    ELSE sql_type

\* BigQueryConverter.to_sql_type
to_sql_type(json_schema_property_def) ==
    LET sql_type == SQLTypeConverter_to_sql_type(json_schema_property_def) IN
    IF isinstance(sql_type, "VARCHAR") THEN PyStr("String")
    ELSE IF isinstance(sql_type, "BIGINT") THEN PyStr("INT64")
    ELSE PyStr(sql_type.class)

\* The converter is asked for the type of the next column of the stream.
call_to_sql_type ==
    /\ Len(conv_columns) < Len(conv_schema)
    /\ conv_columns' =
          Append(conv_columns, to_sql_type(conv_schema[Len(conv_columns) + 1]))
    /\ UNCHANGED <<conv_schema, apivars, bqvars, jsonlvars, writervars, keywords,
                   server_connections>>

NextConverter == call_to_sql_type


\* ------------------------------------------------- AirbyteWriterInterface
\* The objects a caller passes to _write_airbyte_io_stream.
Stdins == {[kind |-> "IO", id |-> 1], [kind |-> "IO", id |-> 2]}
CatalogProviders == {"catalog-1", "catalog-2"}
WriteStrategies == {"append", "merge", "replace", "auto"}
StateWriters == {"None", "state-writer-1", "state-writer-2"}
ProgressTrackers == {"tracker-1", "tracker-2"}

\* What the subclass's _write_airbyte_message_stream does with the call: it
\* returns None or lets an exception out.
MessageStreamOutcomes == {"None", "Exception"}

NoWriterArgs ==
    [stdin |-> [kind |-> "None", id |-> 0], catalog_provider |-> "None",
     write_strategy |-> "None", state_writer |-> "None",
     progress_tracker |-> "None"]

\* A call that leaves state_writer to its default, None.
MessageStreamCallWithoutStateWriter(stdin, catalog_provider, write_strategy, state_writer, progress_tracker) ==
    [method |-> "_write_airbyte_message_stream", stdin |-> stdin,
     catalog_provider |-> catalog_provider, write_strategy |-> write_strategy,
     state_writer |-> "None", progress_tracker |-> progress_tracker]

\* self._write_airbyte_message_stream(stdin, catalog_provider=..., ...)
MessageStreamCall(stdin, catalog_provider, write_strategy, state_writer, progress_tracker) ==
    [method |-> "_write_airbyte_message_stream", stdin |-> stdin,
     catalog_provider |-> catalog_provider, write_strategy |-> write_strategy,
     state_writer |-> state_writer, progress_tracker |-> progress_tracker]

write_airbyte_io_stream ==
    /\ writer_pc = "idle"
    /\ \E stdin \in Stdins, catalog_provider \in CatalogProviders,
          write_strategy \in WriteStrategies, state_writer \in StateWriters,
          progress_tracker \in ProgressTrackers,
          outcome \in MessageStreamOutcomes :
          /\ writer_args' =
                [stdin |-> stdin, catalog_provider |-> catalog_provider,
                 write_strategy |-> write_strategy, state_writer |-> state_writer,
                 progress_tracker |-> progress_tracker]
          /\ writer_calls' =
                Append(writer_calls,
                       MessageStreamCall(stdin, catalog_provider, write_strategy,
                                         state_writer, progress_tracker))
          /\ writer_raised' = outcome
          /\ writer_pc' = IF outcome = "None" THEN "returned" ELSE "raised"
    /\ UNCHANGED <<apivars, bqvars, jsonlvars, convvars, keywords, server_connections>>

\* The caller takes note of the outcome and is ready for the next stream.
writer_next_stream ==
    /\ writer_pc \in {"returned", "raised"}
    /\ writer_pc' = "idle"
    /\ writer_args' = NoWriterArgs
    /\ writer_calls' = <<>>
    /\ writer_raised' = "None"
    /\ UNCHANGED <<apivars, bqvars, jsonlvars, convvars, keywords, server_connections>>

NextWriter ==
    \/ write_airbyte_io_stream
    \/ writer_next_stream

\* ======================================================= specifications
InitWriterIdle ==
    /\ writer_pc = "idle"
    /\ writer_args = NoWriterArgs
    /\ writer_calls = <<>>
    /\ writer_raised = "None"

InitConverterIdle ==
    /\ conv_schema = <<>>
    /\ conv_columns = <<>>

InitBigQueryIdle ==
    /\ bq_config = [project |-> HardCodedProject, schema_name |-> HardCodedDataset]
    /\ bq_pc = "idle"
    /\ bq_args = [files |-> <<>>, stream_name |-> "None", batch_id |-> "None"]
    /\ bq_index = 0
    /\ temp_table_name = <<>>
    /\ warehouse = NoTables
    /\ bq_log = <<>>
    /\ bq_raised = "None"
    /\ bq_returned = <<>>

InitJsonlIdle ==
    /\ jsonl_open = FALSE
    /\ jsonl_content = <<>>
    /\ jsonl_written = <<>>

InitApiIdle ==
    /\ InitApi
    /\ server = EmptyServer

\* The API wrapper: one client program against the API server.
Init == InitApi /\ InitBigQueryIdle /\ InitJsonlIdle /\ InitConverterIdle /\ InitWriterIdle

Next == NextApi

Spec == Init /\ [][Next]_vars

\* The BigQuery processor writing the files of one batch.
InitBigQuery ==
    /\ InitApiIdle
    /\ InitJsonlIdle
    /\ InitConverterIdle
    /\ InitWriterIdle
    /\ bq_config \in BigQueryConfigs
    /\ bq_pc = "idle"
    /\ bq_args = [files |-> <<>>, stream_name |-> "None", batch_id |-> "None"]
    /\ bq_index = 0
    /\ temp_table_name = <<>>
    /\ warehouse = NoTables
    /\ bq_log = <<>>
    /\ bq_raised = "None"
    /\ bq_returned = <<>>

SpecBigQuery == InitBigQuery /\ [][NextBigQuery]_vars

\* The JSONL writer writing the records of one batch file.
InitJsonl == InitApiIdle /\ InitBigQueryIdle /\ InitJsonlIdle /\ InitConverterIdle /\ InitWriterIdle

SpecJsonl == InitJsonl /\ [][NextJsonl]_vars

\* The BigQuery type converter converting the columns of one stream.
InitConverter ==
    /\ InitApiIdle
    /\ InitBigQueryIdle
    /\ InitJsonlIdle
    /\ InitWriterIdle
    /\ conv_schema \in SeqsUpTo(JsonSchemaPropertyDefs, MaxColumns)
    /\ conv_columns = <<>>

SpecConverter == InitConverter /\ [][NextConverter]_vars

\* A writer whose _write_airbyte_io_stream is the inherited one.
InitWriter ==
    /\ InitApiIdle
    /\ InitBigQueryIdle
    /\ InitJsonlIdle
    /\ InitConverterIdle
    /\ InitWriterIdle

SpecWriter == InitWriter /\ [][NextWriter]_vars

\* The API wrapper called with keyword arguments the way the tests call it.
SpecCredentials == Init /\ [][NextCredentials]_vars

\* list_connections against a server that holds a fixed list of connections.
InitPagination ==
    /\ InitBigQueryIdle /\ InitJsonlIdle /\ InitConverterIdle /\ InitWriterIdle
    /\ prog = "idle"
    /\ keywords = {}
    /\ server_connections \in {HeldConnections(n) : n \in 0..MaxConnections}
    /\ tpc = 0
    /\ locals = NoLocals
    /\ server = EmptyServer
    /\ fn = "None"
    /\ pc = "idle"
    /\ args = [name_filter |-> NoneFilter]
    /\ name_filter = NoneFilter
    /\ offset = 0
    /\ served = <<>>
    /\ yielded = <<>>
    /\ requests = <<>>
    /\ last_response = NoValue
    /\ raised = "None"
    /\ value = NoValue

SpecPagination == InitPagination /\ [][NextPagination]_vars

\* ---------------------------------------------------------------- claims
\* Every connection of every page the server has returned so far, in order.
AllServed == Flatten(served)

\* C1: list_connections called with a string name_filter yields exactly the
\* served connections whose name contains that string, and no others.
C1_StringFilterYieldsSubstringMatches ==
    (fn = "list_connections" /\ args.name_filter.kind = "str")
        => /\ raised \in {"None", "AirbyteError"}
           /\ yielded = SelectSeq(AllServed,
                  LAMBDA c : IsSubstring(args.name_filter.value, c.name))

\* C2: with a callable name_filter the generator yields exactly the served
\* connections whose name the callable accepts; with name_filter=None it
\* yields every connection of every page served.
C2_CallableAndNoneFilter ==
    fn = "list_connections" =>
        /\ args.name_filter.kind = "callable" =>
              /\ yielded = SelectSeq(AllServed,
                     LAMBDA c : c.name \in args.name_filter.accepts)
              /\ raised \in {"None", "AirbyteError"}
        /\ args.name_filter.kind = "None" =>
              /\ yielded = AllServed
              /\ raised \in {"None", "AirbyteError"}

\* C2 witness: a finished run with a callable filter that kept some
\* connections and dropped others, over two pages.
C2_Witness ==
    /\ fn = "list_connections"
    /\ args.name_filter.kind = "callable"
    /\ pc = "exhausted"
    /\ Len(served) = 2
    /\ Len(yielded) >= 1
    /\ Len(yielded) < Len(AllServed)
\* A call has ended: it returned, raised, or its generator is exhausted.
CallCompleted ==
    \/ pc \in {"returned", "raised"}
    \/ fn = "list_connections" /\ pc = "exhausted"

ListingFunctions == {"list_connections", "get_connection_by_name"}

\* C3 as stated: every api_util operation issues exactly one request per
\* invocation, whatever the server does.
C3_OneRequestPerInvocation ==
    CallCompleted => Len(requests) = 1

\* C3 amended: every operation but the two listing ones issues exactly one
\* request per invocation (check_connector_config: one for the cloud API
\* root, none otherwise); list_connections and get_connection_by_name issue
\* one request per page fetched: one more than the number of non-empty pages
\* when the listing ends on an empty page or a failed reply, exactly that
\* number when an exception raised while filtering a page cuts it short.
C3_RequestsPerInvocation ==
    CallCompleted =>
        IF fn \in ListingFunctions
        THEN /\ Len(requests) >= 1
             /\ Len(requests) = IF raised = "TypeError"
                                THEN Len(served) ELSE Len(served) + 1
        ELSE IF fn = "check_connector_config"
        THEN Len(requests) = IF args.api_root = CLOUD_API_ROOT THEN 1 ELSE 0
        ELSE Len(requests) = 1

\* C3 witness: get_connection_by_name returned after two non-empty pages and
\* the empty page that ends the listing.
C3_Witness ==
    /\ fn = "get_connection_by_name"
    /\ pc = "returned"
    /\ Len(served) = 2
    /\ Len(requests) = 3

\* C7: check_connector_config with the cloud API root returns normally only
\* when the reply's status field is "succeeded", and an HTTP-successful JSON
\* reply with the status missing or different raises
\* AirbyteConnectorCheckFailedError.
C7_CheckRaisesUnlessSucceeded ==
    (fn = "check_connector_config" /\ args.api_root = CLOUD_API_ROOT /\ CallCompleted)
        => /\ pc = "returned" =>
                 /\ last_response.json
                 /\ last_response.status = "succeeded"
           /\ (status_ok(last_response.status_code) /\ last_response.json) =>
                 IF last_response.status = "succeeded"
                 THEN pc = "returned" /\ raised = "None"
                 ELSE pc = "raised" /\ raised = "AirbyteConnectorCheckFailedError"

\* C7 witness: an HTTP-successful JSON reply without a status field, and the
\* call raised AirbyteConnectorCheckFailedError.
C7_Witness ==
    /\ fn = "check_connector_config"
    /\ args.api_root = CLOUD_API_ROOT
    /\ pc = "raised"
    /\ status_ok(last_response.status_code)
    /\ last_response.json
    /\ last_response.status = "None"
    /\ raised = "AirbyteConnectorCheckFailedError"

\* C8: the legacy root is used exactly when api_root is CLOUD_API_ROOT; with
\* any other api_root check_connector_config raises NotImplementedError
\* before any HTTP request is sent.
C8_NonCloudRootNotImplemented ==
    (fn = "check_connector_config" /\ CallCompleted)
        => IF args.api_root = CLOUD_API_ROOT
           THEN /\ raised # "NotImplementedError"
                /\ Len(requests) = 1
                /\ requests[1].url[1] = LEGACY_API_ROOT
           ELSE /\ raised = "NotImplementedError"
                /\ requests = <<>>
                /\ last_response = NoValue

\* C8 witness: a call with the legacy root itself as api_root was refused.
C8_Witness ==
    /\ fn = "check_connector_config"
    /\ args.api_root = LEGACY_API_ROOT
    /\ pc = "raised"
    /\ raised = "NotImplementedError"
    /\ requests = <<>>

Loads == {i \in 1..Len(bq_log) : bq_log[i].ev = "load"}

\* C4: in _write_files_to_new_table the staging table is created exactly
\* once and before any file is loaded; the files are loaded one by one in
\* list order, each load appending its rows to what the destination held;
\* the name returned is the name of the staging table created, after every
\* file was loaded; with an empty file list there is a create and no load.
C4_BatchLifecycle ==
    bq_pc # "idle" =>
        /\ Len(bq_log) >= 1
        /\ bq_log[1].ev = "create"
        /\ bq_log[1].table[3] = temp_table_name
        /\ Len(bq_log) - 1 <= Len(bq_args.files)
        /\ \A i \in 2..Len(bq_log) :
              /\ bq_log[i].ev = "load"
              /\ bq_log[i].file = bq_args.files[i - 1]
              /\ bq_log[i].after = bq_log[i].before \o bq_log[i].file.rows
        /\ bq_pc = "returned" =>
              /\ bq_returned = bq_log[1].table[3]
              /\ Len(bq_log) = Len(bq_args.files) + 1
        /\ bq_args.files = <<>> => (bq_pc = "returned" /\ Loads = {})

\* C4 witness: a batch of two files was loaded, the second on top of the
\* rows of the first, and the call returned.
C4_Witness ==
    /\ bq_pc = "returned"
    /\ Len(bq_args.files) = 2
    /\ Len(bq_log) = 3
    /\ bq_log[3].before = bq_log[2].after
    /\ bq_log[3].before # <<>>

\* C5: for every configured project and schema, each file's rows are loaded
\* only into the staging table created by _create_table_for_loading, never
\* into a table the loader creates itself; when the staging table does not
\* exist as a file is about to be loaded the call raises
\* AirbyteLibInternalError and loads neither that file nor a later one.
C5_LoadsOnlyIntoStagingTable ==
    /\ \A i \in Loads :
          /\ bq_log[i].table = bq_log[1].table
          /\ ~bq_log[i].auto_created
    /\ bq_raised = "AirbyteLibInternalError" =>
          /\ bq_pc = "raised"
          /\ ~table_exists(temp_table_name)
          /\ Len(bq_log) - 1 < Len(bq_args.files)

\* C6: after any sequence of _write_record_dict calls on one opened file the
\* content is the concatenation, in call order, of each record's JSON
\* encoding followed by one line feed: the file has as many lines as records
\* were written, and decoding line i gives back record i.
C6_OneRecordPerLine ==
    jsonl_open =>
        LET lines == SplitLines(jsonl_content, <<>>) IN
        /\ jsonl_content =
              Flatten([i \in 1..Len(jsonl_written) |->
                          orjson_dumps(jsonl_written[i]) \o <<LF>>])
        /\ Len(lines) = Len(jsonl_written)
        /\ \A i \in 1..Len(lines) :
              /\ json_loads(lines[i]).ok
              /\ json_loads(lines[i]).val = jsonl_written[i]

\* C6 witness: two records were written, the first holding a line feed in a
\* string value.
C6_Witness ==
    /\ jsonl_open
    /\ Len(jsonl_written) = 2
    /\ jsonl_written[1] = <<Item(<<"a">>, StrValue(<<"x", LF>>))>>
    /\ jsonl_written[2] = <<>>

C13_IoStreamDelegatesOnce ==
    writer_pc \in {"returned", "raised"} =>
        /\ Len(writer_calls) = 1
        /\ writer_calls[1].method = "_write_airbyte_message_stream"
        /\ writer_calls[1].stdin = writer_args.stdin
        /\ writer_calls[1].catalog_provider = writer_args.catalog_provider
        /\ writer_calls[1].write_strategy = writer_args.write_strategy
        /\ writer_calls[1].state_writer = writer_args.state_writer
        /\ writer_calls[1].progress_tracker = writer_args.progress_tracker
        /\ (writer_pc = "raised") = (writer_raised # "None")

\* C13 witness: a call with a state writer has returned.
C13_Witness ==
    /\ writer_pc = "returned"
    /\ writer_args.state_writer # "None"
    /\ Len(writer_calls) = 1

\* ------------------------------------------------------------ credentials
\* C14: a call that the tests make with client_id and client_secret is
\* accepted: it is not ended by a TypeError over its arguments, and it sends
\* its request to the API.
C14_ClientCredentialsAccepted ==
    (prog = "call" /\ ClientCredentials \subseteq keywords) =>
        /\ raised # "TypeError"
        /\ Len(requests) >= 1

\* -------------------------------------------------------------- pagination
\* C15: against a server that holds a fixed list of connections and honours
\* limit and offset, list_connections with no filter sends requests with
\* limit 50 and offsets 0, 50, 100, ... in that order, what it has yielded is
\* always the beginning of the server's list, it does not raise, and when it
\* is exhausted it has yielded the whole list: every connection once, in
\* server order.
C15_PaginationComplete ==
    (fn = "list_connections" /\ args.name_filter = NoneFilter) =>
        /\ \A i \in 1..Len(requests) :
              /\ requests[i].limit = 50
              /\ requests[i].offset = 50 * (i - 1)
        /\ Len(yielded) <= Len(server_connections)
        /\ yielded = SubSeq(server_connections, 1, Len(yielded))
        /\ pc # "raised"
        /\ pc = "exhausted" => yielded = server_connections

\* C15 witness: a list of more than two full pages has been listed to its
\* end, with four requests.
C15_Witness ==
    /\ fn = "list_connections"
    /\ args.name_filter = NoneFilter
    /\ pc = "exhausted"
    /\ Len(server_connections) > 100
    /\ yielded = server_connections
    /\ Len(requests) = 4

====
